---- MODULE Spec2Model ----
(***************************************************************************)
(* Model of fetch_ai_papers.py: main() resolves the AI topic ids from the  *)
(* paginated OpenAlex topic search, builds one filtered works query,       *)
(* accumulates every works page, trims each work's topics array and dumps  *)
(* the list as JSON into temp/ai_papers_<timestamp>.json.                  *)
(*                                                                         *)
(* Text is modelled as a sequence of one-character strings, so that        *)
(* strip(), rstrip("/"), split("/") and "|".join() act on characters.      *)
(* A JSON value that may be absent or null is a record                     *)
(* [kind |-> "absent" | "null" | "str", val |-> text].                     *)
(***************************************************************************)
EXTENDS Integers, Sequences, FiniteSets, TLC

(***************************************************************************)
(* Bounds of the model                                                     *)
(***************************************************************************)
\* total number of topic records the topic search returns over all pages
MaxTopicRecords == 2
\* total number of works the works query returns over all pages
MaxWorks == 2

(***************************************************************************)
(* Text                                                                    *)
(***************************************************************************)
Artificial == <<"A", "r", "t", "i", "f", "i", "c", "i", "a", "l">>
ntelligence == <<"n", "t", "e", "l", "l", "i", "g", "e", "n", "c", "e">>
ArtificialLowerI == Artificial \o <<" ", "i">> \o ntelligence
ArtificialUpperI == Artificial \o <<" ", "I">> \o ntelligence
AllLowerCase == <<"a", "r", "t", "i", "f", "i", "c", "i", "a", "l", " ", "i">> \o ntelligence
ComputerScience == <<"C", "o", "m", "p", "u", "t", "e", "r", " ", "S", "c", "i", "e", "n", "c", "e">>
OpenAlexUrl == <<"h", "t", "t", "p", "s", ":", "/", "/", "o", "p", "e", "n", "a", "l", "e", "x", ".", "o", "r", "g", "/">>
NoneText == <<"N", "o", "n", "e">>
article == <<"a", "r", "t", "i", "c", "l", "e">>

Whitespace == {" ", "\t", "\n", "\r"}

Absent == [kind |-> "absent", val |-> <<>>]
Null == [kind |-> "null", val |-> <<>>]
Str(s) == [kind |-> "str", val |-> s]

\* Python truthiness of a value that is absent (None from .get), null or text
Truthy(v) == v.kind = "str" /\ v.val # <<>>

\* v or "" : the text, or the empty text for a falsy value
OrEmpty(v) == IF Truthy(v) THEN v.val ELSE <<>>

\* str(topic.get("id", "")) : a missing key gives "", a null gives "None"
StrOfGetDefaultEmpty(v) ==
  CASE v.kind = "absent" -> <<>>
    [] v.kind = "null" -> NoneText
    [] OTHER -> v.val

RECURSIVE rstrip(_, _)
rstrip(s, chars) ==
  IF s = <<>> THEN s
  ELSE IF s[Len(s)] \in chars THEN rstrip(SubSeq(s, 1, Len(s) - 1), chars)
  ELSE s

RECURSIVE lstrip(_, _)
lstrip(s, chars) ==
  IF s = <<>> THEN s
  ELSE IF s[1] \in chars THEN lstrip(Tail(s), chars)
  ELSE s

strip(s) == rstrip(lstrip(s, Whitespace), Whitespace)

Contains(s, c) == \E k \in DOMAIN s : s[k] = c

\* s.split(sep)[-1] : the text after the last separator, all of s without one
RECURSIVE LastSegment(_, _)
LastSegment(s, sep) ==
  IF s = <<>> THEN <<>>
  ELSE IF s[Len(s)] = sep THEN <<>>
  ELSE Append(LastSegment(SubSeq(s, 1, Len(s) - 1), sep), s[Len(s)])

\* sep.join(parts)
RECURSIVE join(_, _)
join(sep, parts) ==
  IF parts = <<>> THEN <<>>
  ELSE IF Len(parts) = 1 THEN parts[1]
  ELSE parts[1] \o <<sep>> \o join(sep, Tail(parts))

(***************************************************************************)
(* Module constants and _short_id                                          *)
(***************************************************************************)
AI_FIELD_SUBFIELD_DISPLAY_NAMES == {ArtificialLowerI, ArtificialUpperI}

max_pages == 10

\* the topic search offers up to two pages more than the resolver's cap
MaxTopicPages == max_pages + 2

\* the works query offers its works on up to this many pages, empty ones included
MaxWorksPages == MaxWorks + 1

short_id(oid) ==
  IF oid = <<>> THEN <<>>
  ELSE IF Contains(oid, "/") THEN LastSegment(rstrip(oid, {"/"}), "/")
  ELSE oid

(***************************************************************************)
(* Topic records returned by the topic search                              *)
(***************************************************************************)
\* a "field" or "subfield" member: missing, null, or an object
NoObject == [kind |-> "absent", display_name |-> Absent]
NullObject == [kind |-> "null", display_name |-> Absent]
Obj(name) == [kind |-> "obj", display_name |-> name]

Topic(id, field, subfield) == [id |-> id, field |-> field, subfield |-> subfield]

TopicRecords ==
  { Topic(Str(OpenAlexUrl \o <<"T", "1">>), Obj(Str(ComputerScience)), Obj(Str(ArtificialUpperI))),
    Topic(Str(<<"T", "1">>), NoObject, Obj(Str(<<" ">> \o ArtificialLowerI \o <<" ", "\n">>))),
    Topic(Str(OpenAlexUrl \o <<"T", "2", "/">>), Obj(Str(ArtificialUpperI)), NullObject),
    Topic(Str(<<"T", "3">>), Obj(Str(Artificial)), Obj(Str(AllLowerCase))),
    Topic(Str(<<"T", "4">>), Obj(Null), Obj(Str(ComputerScience))),
    Topic(Absent, Obj(Str(ArtificialLowerI)), Obj(Absent)),
    Topic(Null, Obj(Str(ComputerScience)), Obj(Str(ArtificialUpperI))),
    Topic(Str(<<>>), Obj(Str(ArtificialUpperI)), Obj(Str(ArtificialUpperI))),
    Topic(Str(<<"/", "/">>), Obj(Str(ArtificialUpperI)), NoObject) }

SeqsUpTo(S, n) == UNION {[1..k -> S] : k \in 0..n}

\* (topic.get("field") or {}).get("display_name") or "", stripped
display_name(obj) == strip(IF obj.kind = "obj" THEN OrEmpty(obj.display_name) ELSE <<>>)

\* TopicMatches requiring both names to match
TopicMatches_both(topic) ==
  /\ display_name(topic.field) \in AI_FIELD_SUBFIELD_DISPLAY_NAMES
  /\ display_name(topic.subfield) \in AI_FIELD_SUBFIELD_DISPLAY_NAMES

\* line 46 negated: the record is kept
TopicMatches(topic) ==
  \/ display_name(topic.field) \in AI_FIELD_SUBFIELD_DISPLAY_NAMES
  \/ display_name(topic.subfield) \in AI_FIELD_SUBFIELD_DISPLAY_NAMES

\* tid of line 48
TopicTid(topic) == short_id(StrOfGetDefaultEmpty(topic.id))

(***************************************************************************)
(* Dates: the proleptic Gregorian calendar of datetime                     *)
(***************************************************************************)
SecondsPerDay == 86400

\* <<year, month, day>> of the day number z counted from 1970-01-01
DateOfDay(z) ==
  LET z1 == z + 719468
      era == z1 \div 146097
      doe == z1 - era * 146097
      yoe == (doe - (doe \div 1460) + (doe \div 36524) - (doe \div 146096)) \div 365
      doy == doe - (365 * yoe + (yoe \div 4) - (yoe \div 100))
      mp == (5 * doy + 2) \div 153
      d == doy - ((153 * mp + 2) \div 5) + 1
      m == IF mp < 10 THEN mp + 3 ELSE mp - 9
      y == yoe + era * 400 + (IF m <= 2 THEN 1 ELSE 0)
  IN <<y, m, d>>

\* strftime("%Y-%m-%d") of the instant t (seconds since the epoch, UTC)
strftime_date(t) == DateOfDay(t \div SecondsPerDay)

\* strftime("%Y%m%d_%H%M%S")
strftime_stamp(t) ==
  LET s == t % SecondsPerDay
  IN DateOfDay(t \div SecondsPerDay) \o <<s \div 3600, (s % 3600) \div 60, s % 60>>

\* datetime - timedelta(days=n)
minus_days(t, n) == t - n * SecondsPerDay

\* instants the first reading of the clock can return:
\* 2024-06-09 23:59:59 and 2024-03-02 12:00:00 UTC
StartInstants == {1717977599, 1709380800}

\* seconds the clock can have advanced between two readings
ClockSteps == {0, 1}

(***************************************************************************)
(* Work records returned by the works query                                *)
(***************************************************************************)
\* the "topics" member of a work: missing, or a list of {id: ...}
NoTopics == [kind |-> "absent", items |-> <<>>]
TopicList(items) == [kind |-> "list", items |-> items]
Ref(id) == [id |-> id]

Work(id, topics) == [id |-> id, topics |-> topics]

WorkRecords ==
  { Work("W1", NoTopics),
    Work("W2", TopicList(<<>>)),
    Work("W3", TopicList(<<Ref(Str(OpenAlexUrl \o <<"T", "1">>)),
                           Ref(Str(OpenAlexUrl \o <<"T", "9">>)),
                           Ref(Str(OpenAlexUrl \o <<"T", "2">>))>>)),
    Work("W4", TopicList(<<Ref(Null), Ref(Str(<<"T", "2", "/">>)), Ref(Absent),
                           Ref(Str(<<"T", "1">>))>>)) }

\* "topics" in p and p["topics"]
HasTopics(p) == p.topics.kind = "list" /\ p.topics.items # <<>>

\* _short_id(str(t.get("id") or ""))
RefTid(t) == short_id(OrEmpty(t.id))

\* TrimWork comparing the entries' identifiers as given, not their short form
TrimWork_raw_id(p, ai_topic_id_set) ==
  IF HasTopics(p)
  THEN [p EXCEPT !.topics.items = SelectSeq(@, LAMBDA t : OrEmpty(t.id) \in ai_topic_id_set)]
  ELSE p

\* lines 89-90 for one work
TrimWork(p, ai_topic_id_set) ==
  IF HasTopics(p)
  THEN [p EXCEPT !.topics.items = SelectSeq(@, LAMBDA t : RefTid(t) \in ai_topic_id_set)]
  ELSE p

\* lines 87-90: the loop over papers
TrimAll(ps, ids) ==
  LET ai_topic_id_set == {ids[k] : k \in DOMAIN ids}
  IN [k \in DOMAIN ps |-> TrimWork(ps[k], ai_topic_id_set)]

(***************************************************************************)
(* json.dump: the document is written as a sequence of chunks              *)
(***************************************************************************)
NoWork == Work("", NoTopics)
Sym(c) == [sym |-> c, obj |-> NoWork]
ObjChunk(w) == [sym |-> "obj", obj |-> w]

RECURSIVE json_items(_)
json_items(ps) ==
  IF ps = <<>> THEN <<>>
  ELSE IF Len(ps) = 1 THEN <<ObjChunk(ps[1])>>
  ELSE <<ObjChunk(ps[1]), Sym(",")>> \o json_items(Tail(ps))

json_dump(ps) == <<Sym("[")>> \o json_items(ps) \o <<Sym("]")>>

(***************************************************************************)
(* State                                                                   *)
(***************************************************************************)
VARIABLES
  pc,              \* position of the run in main() / get_ai_topic_ids()
  error,           \* the exception that ended the run, "none" otherwise
  WORK_TYPE,       \* module constant of line 22: a text, or None
  temp_dir,        \* the temp directory: "missing" or "created"
  i,               \* enumerate index of the topic page loop
  page,            \* records of the current topic page still to be processed
  seen,            \* get_ai_topic_ids: seen
  topic_ids,       \* get_ai_topic_ids: topic_ids, then main: topic_ids
  topicsRetrieved, \* pages the topic paginator has retrieved from upstream
  topicsYielded,   \* records of the first max_pages topic pages, in stream order
  clock,           \* latest reading of the system clock (0: not read yet)
  today,           \* main: today
  three_days_ago,  \* main: three_days_ago
  query,           \* main: the filter of the works query
  queriesBuilt,    \* number of works queries built
  papers,          \* main: papers
  worksRetrieved,  \* pages the works paginator has retrieved from upstream
  worksYielded,    \* works of all retrieved pages, as returned by upstream
  sentFilters,     \* filters of the works page requests issued so far
  worksDone,       \* the works paginator has signalled exhaustion
  trimmed,         \* the trimming loop of lines 88-90 has completed
  timestamp,       \* main: timestamp
  file,            \* the snapshot file out_path of this run
  fileOpens        \* number of times the snapshot file was opened for writing

vars ==
  <<pc, error, WORK_TYPE, temp_dir, i, page, seen, topic_ids, topicsRetrieved,
    topicsYielded, clock, today, three_days_ago, query, queriesBuilt, papers,
    worksRetrieved, worksYielded, sentFilters, worksDone, trimmed, timestamp,
    file, fileOpens>>

resolverVars == <<i, page, seen, topic_ids, topicsRetrieved, topicsYielded>>
clockVars == <<clock, today, three_days_ago, timestamp>>
worksVars == <<query, queriesBuilt, papers, worksRetrieved, worksYielded, sentFilters, worksDone, trimmed>>
fsVars == <<temp_dir, file, fileOpens>>

NoQuery ==
  [primary_topic_id |-> <<>>, from_publication_date |-> <<>>,
   to_publication_date |-> <<>>, type |-> Absent]

NoFile == [exists |-> FALSE, name |-> <<>>, content |-> <<>>]

Init ==
  /\ pc = "topics_next"
  /\ error = "none"
  /\ WORK_TYPE \in {Str(article), Null}
  /\ temp_dir = "missing"
  /\ i = 0
  /\ page = <<>>
  /\ seen = {}
  /\ topic_ids = <<>>
  /\ topicsRetrieved = 0
  /\ topicsYielded = <<>>
  /\ clock = 0
  /\ today = <<>>
  /\ three_days_ago = <<>>
  /\ query = NoQuery
  /\ queriesBuilt = 0
  /\ papers = <<>>
  /\ worksRetrieved = 0
  /\ worksYielded = <<>>
  /\ sentFilters = {}
  /\ worksDone = FALSE
  /\ trimmed = FALSE
  /\ timestamp = <<>>
  /\ file = NoFile
  /\ fileOpens = 0

\* an exception propagates out of main(): the run ends
Raise(e) == pc' = "failed" /\ error' = e

(***************************************************************************)
(* get_ai_topic_ids (lines 32-52)                                          *)
(***************************************************************************)
\* line 38: the paginator's request for the next page fails
TopicsRequestFails ==
  /\ pc = "topics_next"
  /\ Raise("UpstreamRequestError")
  /\ UNCHANGED <<WORK_TYPE, resolverVars, clockVars, worksVars, fsVars>>

\* line 38: the paginator signals exhaustion; line 52 returns
TopicsExhausted ==
  /\ pc = "topics_next"
  /\ pc' = "resolved"
  /\ UNCHANGED <<error, WORK_TYPE, resolverVars, clockVars, worksVars, fsVars>>

\* lines 38-40: enumerate takes the next page from the paginator, which
\* retrieves it from upstream; then the cap on the index is tested
TopicsPage ==
  /\ pc = "topics_next"
  /\ topicsRetrieved < MaxTopicPages
  /\ \E p \in SeqsUpTo(TopicRecords, MaxTopicRecords - Len(topicsYielded)) :
       /\ topicsRetrieved' = topicsRetrieved + 1
       /\ topicsYielded' = IF topicsRetrieved < max_pages THEN topicsYielded \o p ELSE topicsYielded
       /\ IF i >= max_pages
          THEN pc' = "resolved" /\ page' = <<>>
          ELSE pc' = "topic_loop" /\ page' = p
  /\ UNCHANGED <<error, WORK_TYPE, i, seen, topic_ids, clockVars, worksVars, fsVars>>

\* lines 41-51: one iteration of the loop over the page's records
ProcessTopic ==
  /\ pc = "topic_loop"
  /\ page # <<>>
  /\ LET topic == Head(page)
         tid == TopicTid(topic)
     IN IF TopicMatches(topic) /\ tid # <<>> /\ tid \notin seen
        THEN seen' = seen \cup {tid} /\ topic_ids' = Append(topic_ids, tid)
        ELSE UNCHANGED <<seen, topic_ids>>
  /\ page' = Tail(page)
  /\ UNCHANGED <<pc, error, WORK_TYPE, i, topicsRetrieved, topicsYielded, clockVars, worksVars, fsVars>>

\* line 41 at the end of the page: back to line 38 with the next index
EndOfPage ==
  /\ pc = "topic_loop"
  /\ page = <<>>
  /\ i' = i + 1
  /\ pc' = "topics_next"
  /\ UNCHANGED <<error, WORK_TYPE, page, seen, topic_ids, topicsRetrieved, topicsYielded, clockVars, worksVars, fsVars>>

(***************************************************************************)
(* main (lines 55-103)                                                     *)
(***************************************************************************)
\* CheckTopicIds without the test of line 59
CheckTopicIds_no_raise ==
  /\ pc = "resolved"
  /\ pc' = "now1" /\ UNCHANGED error
  /\ i' = 0 /\ page' = <<>> /\ seen' = {}
  /\ topicsRetrieved' = 0 /\ topicsYielded' = <<>>
  /\ UNCHANGED <<WORK_TYPE, topic_ids, clockVars, worksVars, fsVars>>

\* lines 58-64: the call returns (its locals and its paginator are gone),
\* and an empty list raises RuntimeError
CheckTopicIds ==
  /\ pc = "resolved"
  /\ IF topic_ids = <<>>
     THEN Raise("RuntimeError")
     ELSE pc' = "now1" /\ UNCHANGED error
  /\ i' = 0 /\ page' = <<>> /\ seen' = {}
  /\ topicsRetrieved' = 0 /\ topicsYielded' = <<>>
  /\ UNCHANGED <<WORK_TYPE, topic_ids, clockVars, worksVars, fsVars>>

\* datetime.now(timezone.utc): a reading not earlier than the latest one
Now(t) ==
  IF clock = 0 THEN t \in StartInstants ELSE (t - clock) \in ClockSteps

\* line 66
ReadToday ==
  /\ pc = "now1"
  /\ \E t \in StartInstants \cup {clock + d : d \in ClockSteps} :
       /\ Now(t)
       /\ clock' = t
       /\ today' = strftime_date(t)
  /\ pc' = "now2"
  /\ UNCHANGED <<error, WORK_TYPE, resolverVars, three_days_ago, timestamp, worksVars, fsVars>>

\* line 67
ReadThreeDaysAgo ==
  /\ pc = "now2"
  /\ \E t \in {clock + d : d \in ClockSteps} :
       /\ Now(t)
       /\ clock' = t
       /\ three_days_ago' = strftime_date(minus_days(t, 3))
  /\ pc' = "build_query"
  /\ UNCHANGED <<error, WORK_TYPE, resolverVars, today, timestamp, worksVars, fsVars>>

\* filter_extra passing the type clause whatever WORK_TYPE is
filter_extra_always == WORK_TYPE

\* line 72
filter_extra == IF Truthy(WORK_TYPE) THEN WORK_TYPE ELSE Absent

\* lines 71-81
BuildQuery ==
  /\ pc = "build_query"
  /\ papers' = <<>>
  /\ query' = [primary_topic_id |-> join("|", topic_ids),
               from_publication_date |-> three_days_ago,
               to_publication_date |-> today,
               type |-> filter_extra]
  /\ queriesBuilt' = queriesBuilt + 1
  /\ pc' = "works_next"
  /\ UNCHANGED <<error, WORK_TYPE, resolverVars, clockVars, worksRetrieved, worksYielded, sentFilters, worksDone, trimmed, fsVars>>

\* line 82: the request for the next works page fails
WorksRequestFails ==
  /\ pc = "works_next"
  /\ sentFilters' = sentFilters \cup {query}
  /\ Raise("UpstreamRequestError")
  /\ UNCHANGED <<WORK_TYPE, resolverVars, clockVars, query, queriesBuilt, papers, worksRetrieved, worksYielded, worksDone, trimmed, fsVars>>

\* WorksExhausted going on to the writer without the trimming loop
WorksExhausted_skip_trim ==
  /\ pc = "works_next"
  /\ worksDone' = TRUE
  /\ pc' = "mkdir"
  /\ UNCHANGED <<error, WORK_TYPE, resolverVars, clockVars, query, queriesBuilt, papers, worksRetrieved, worksYielded, sentFilters, trimmed, fsVars>>

\* line 82: the paginator signals exhaustion, the loop ends
WorksExhausted ==
  /\ pc = "works_next"
  /\ worksDone' = TRUE
  /\ pc' = "trim"
  /\ UNCHANGED <<error, WORK_TYPE, resolverVars, clockVars, query, queriesBuilt, papers, worksRetrieved, worksYielded, sentFilters, trimmed, fsVars>>

\* extend keeping only the latest page
extend_replace(list, items) == items

\* line 83: list.extend
extend(list, items) == list \o items

\* lines 82-84: the next page is retrieved and appended to papers
WorksPage ==
  /\ pc = "works_next"
  /\ worksRetrieved < MaxWorksPages
  /\ \E p \in SeqsUpTo(WorkRecords, MaxWorks - Len(worksYielded)) :
       /\ papers' = extend(papers, p)
       /\ worksYielded' = worksYielded \o p
  /\ worksRetrieved' = worksRetrieved + 1
  /\ sentFilters' = sentFilters \cup {query}
  /\ UNCHANGED <<pc, error, WORK_TYPE, resolverVars, clockVars, query, queriesBuilt, worksDone, trimmed, fsVars>>

\* lines 87-92
TrimTopics ==
  /\ pc = "trim"
  /\ papers' = TrimAll(papers, topic_ids)
  /\ trimmed' = TRUE
  /\ pc' = "mkdir"
  /\ UNCHANGED <<error, WORK_TYPE, resolverVars, clockVars, query, queriesBuilt, worksRetrieved, worksYielded, sentFilters, worksDone, fsVars>>

\* lines 95-96: temp_dir.mkdir(exist_ok=True)
MakeTempDir ==
  /\ pc = "mkdir"
  /\ temp_dir' = IF temp_dir = "missing" THEN "created" ELSE temp_dir
  /\ pc' = "timestamp"
  /\ UNCHANGED <<error, WORK_TYPE, resolverVars, clockVars, worksVars, file, fileOpens>>

\* line 96 raises OSError
MakeTempDirFails ==
  /\ pc = "mkdir"
  /\ temp_dir = "missing"
  /\ Raise("FilesystemError")
  /\ UNCHANGED <<WORK_TYPE, resolverVars, clockVars, worksVars, fsVars>>

\* lines 97-98
TakeTimestamp ==
  /\ pc = "timestamp"
  /\ \E t \in {clock + d : d \in ClockSteps} :
       /\ Now(t)
       /\ clock' = t
       /\ timestamp' = strftime_stamp(t)
  /\ pc' = "open"
  /\ UNCHANGED <<error, WORK_TYPE, resolverVars, today, three_days_ago, worksVars, fsVars>>

\* line 100: open(out_path, "w") creates the file, empty
OpenFile ==
  /\ pc = "open"
  /\ file' = [exists |-> TRUE, name |-> timestamp, content |-> <<>>]
  /\ fileOpens' = fileOpens + 1
  /\ pc' = "dump"
  /\ UNCHANGED <<error, WORK_TYPE, resolverVars, clockVars, worksVars, temp_dir>>

\* line 100 raises OSError
OpenFileFails ==
  /\ pc = "open"
  /\ Raise("FilesystemError")
  /\ UNCHANGED <<WORK_TYPE, resolverVars, clockVars, worksVars, fsVars>>

\* lines 101-103: every chunk is written, the file is closed
DumpJson ==
  /\ pc = "dump"
  /\ file' = [file EXCEPT !.content = json_dump(papers)]
  /\ pc' = "done"
  /\ UNCHANGED <<error, WORK_TYPE, resolverVars, clockVars, worksVars, temp_dir, fileOpens>>

\* line 101: a write raises OSError after n chunks; the with block closes
\* the file and the exception propagates
DumpFails ==
  /\ pc = "dump"
  /\ \E n \in 0..(Len(json_dump(papers)) - 1) :
       file' = [file EXCEPT !.content = SubSeq(json_dump(papers), 1, n)]
  /\ Raise("FilesystemError")
  /\ UNCHANGED <<WORK_TYPE, resolverVars, clockVars, worksVars, temp_dir, fileOpens>>

Next ==
  \/ TopicsRequestFails
  \/ TopicsExhausted
  \/ TopicsPage
  \/ ProcessTopic
  \/ EndOfPage
  \/ CheckTopicIds
  \/ ReadToday
  \/ ReadThreeDaysAgo
  \/ BuildQuery
  \/ WorksRequestFails
  \/ WorksExhausted
  \/ WorksPage
  \/ TrimTopics
  \/ MakeTempDir
  \/ MakeTempDirFails
  \/ TakeTimestamp
  \/ OpenFile
  \/ OpenFileFails
  \/ DumpJson
  \/ DumpFails

Spec == Init /\ [][Next]_vars

TypeOK ==
  /\ pc \in {"topics_next", "topic_loop", "resolved", "now1", "now2", "build_query",
             "works_next", "trim", "mkdir", "timestamp", "open", "dump", "done", "failed"}
  /\ error \in {"none", "RuntimeError", "UpstreamRequestError", "FilesystemError"}
  /\ i \in 0..(max_pages + 1)
  /\ topicsRetrieved \in 0..MaxTopicPages
  /\ Len(topicsYielded) <= MaxTopicRecords
  /\ Len(worksYielded) <= MaxWorks
  /\ queriesBuilt \in 0..1

(***************************************************************************)
(* Properties                                                              *)
(***************************************************************************)
ResolverPcs == {"topics_next", "topic_loop", "resolved"}
Terminal == pc \in {"done", "failed"}
Range(f) == {f[k] : k \in DOMAIN f}

\* nothing of the fetch and write stages has happened
NothingIssued ==
  /\ queriesBuilt = 0
  /\ sentFilters = {}
  /\ worksRetrieved = 0
  /\ clock = 0
  /\ temp_dir = "missing"
  /\ fileOpens = 0
  /\ ~file.exists

\* C1: in every terminal state either the snapshot file holds the complete
\* JSON array of all fetched, trimmed works, or the run created no file,
\* whichever step failed (a failing write after the file was opened included).
AllOrNothingSnapshot ==
  Terminal =>
    \/ ~file.exists /\ fileOpens = 0
    \/ file.exists /\ trimmed /\ file.content = json_dump(papers)

\* C2: when the resolver returns no topic id, main() raises at once: no works
\* query is built or sent, the clock is not read, the temp directory is not
\* created and no file is written; and no later stage runs with an empty list.
NoTopicsAbortsRun ==
  /\ (pc \notin ResolverPcs /\ topic_ids = <<>>) =>
       (pc = "failed" /\ error \in {"RuntimeError", "UpstreamRequestError"} /\ NothingIssued)
  /\ (error = "RuntimeError") => (pc = "failed" /\ topic_ids = <<>> /\ NothingIssued)

NoTopicsAbortsRunWitness ==
  /\ pc = "failed"
  /\ error = "RuntimeError"
  /\ topic_ids = <<>>

\* the name the claim compares: the display name, empty when absent
NameText(obj) ==
  IF obj.kind = "obj" /\ obj.display_name.kind = "str" THEN obj.display_name.val ELSE <<>>

Qualifies(topic) ==
  \/ strip(NameText(topic.field)) \in {ArtificialLowerI, ArtificialUpperI}
  \/ strip(NameText(topic.subfield)) \in {ArtificialLowerI, ArtificialUpperI}

\* the elements of s, each at its first occurrence only
RECURSIVE KeepFirst(_)
KeepFirst(s) ==
  IF s = <<>> THEN <<>>
  ELSE LET front == SubSeq(s, 1, Len(s) - 1)
           last == s[Len(s)]
       IN IF \E k \in DOMAIN front : front[k] = last
          THEN KeepFirst(front)
          ELSE Append(KeepFirst(front), last)

ExpectedTopicIds(records) ==
  LET kept == SelectSeq(records, Qualifies)
      ids == [k \in DOMAIN kept |-> TopicTid(kept[k])]
  IN KeepFirst(SelectSeq(ids, LAMBDA t : t # <<>>))

\* records of the first max_pages pages the loop has processed so far
ProcessedTopics == SubSeq(topicsYielded, 1, Len(topicsYielded) - Len(page))

DayOfDate(date) ==
  LET y == IF date[2] <= 2 THEN date[1] - 1 ELSE date[1]
      era == y \div 400
      yoe == y - era * 400
      mp == IF date[2] > 2 THEN date[2] - 3 ELSE date[2] + 9
      doy == ((153 * mp + 2) \div 5) + date[3] - 1
      doe == yoe * 365 + (yoe \div 4) - (yoe \div 100) + doy
  IN era * 146097 + doe - 719468

\* C4: in every run that reaches the works query, date_from is exactly 3
\* calendar days before date_to, however the clock advances during the run.
DateWindowIsThreeDays ==
  queriesBuilt > 0 =>
    DayOfDate(query.to_publication_date) - DayOfDate(query.from_publication_date) = 3

\* the entry's short-form id is a member of the resolved topic ids
EntryIsAiTopic(t) == t.id.kind = "str" /\ short_id(t.id.val) \in Range(topic_ids)

\* new holds exactly the entries of old that satisfy Keep, in old's order
IsSelection(new, old, Keep(_)) ==
  LET kept == {j \in DOMAIN old : Keep(old[j])}
  IN /\ Len(new) = Cardinality(kept)
     /\ \A j \in kept : new[Cardinality({h \in kept : h <= j})] = old[j]

\* C5: after the trimming loop, a work fetched with a non-empty topics array
\* has exactly the entries whose short-form id is a resolved topic id, in the
\* original order, and is otherwise as fetched; a work whose topics member is
\* missing or empty is as fetched.
TopicsTrimmed ==
  trimmed =>
    /\ Len(papers) = Len(worksYielded)
    /\ \A k \in DOMAIN papers :
         LET old == worksYielded[k]
             new == papers[k]
         IN IF old.topics.kind = "list" /\ old.topics.items # <<>>
            THEN /\ new.id = old.id
                 /\ new.topics.kind = "list"
                 /\ IsSelection(new.topics.items, old.topics.items, EntryIsAiTopic)
            ELSE new = old

TopicsTrimmedWitness ==
  /\ trimmed
  /\ \E k \in DOMAIN papers :
       /\ Len(worksYielded[k].topics.items) = 3
       /\ papers[k].topics.items = <<worksYielded[k].topics.items[1], worksYielded[k].topics.items[3]>>
  /\ \E k \in DOMAIN papers : worksYielded[k].topics.kind = "absent" /\ papers[k] = worksYielded[k]

\* C6: a works query is built or sent only after the resolver has returned;
\* the temp directory is created and the file opened only after the works
\* paginator is exhausted and every work trimmed; the file is opened for
\* writing at most once.
StageOrdering ==
  /\ (queriesBuilt > 0 \/ sentFilters # {} \/ worksRetrieved > 0) => pc \notin ResolverPcs
  /\ trimmed => worksDone
  /\ (temp_dir = "created" \/ fileOpens > 0 \/ file.exists) => (worksDone /\ trimmed)
  /\ fileOpens <= 1
  /\ file.content # <<>> => fileOpens = 1

StageOrderingWitness ==
  /\ pc = "done"
  /\ worksRetrieved >= 2
  /\ temp_dir = "created"
  /\ fileOpens = 1
  /\ file.content # <<>>

\* C7: the resolver retrieves at most 10 pages from the topic search.
TopicPageCap == topicsRetrieved <= max_pages

\* the list of works a chunk sequence encodes, if it is a complete document
WellFormedJson(c) ==
  /\ Len(c) >= 2
  /\ Len(c) = 2 \/ Len(c) % 2 = 1
  /\ c[1] = Sym("[")
  /\ c[Len(c)] = Sym("]")
  /\ \A k \in 2..(Len(c) - 1) :
       IF k % 2 = 0 THEN c[k].sym = "obj" ELSE c[k] = Sym(",")

JsonWorks(c) == [k \in 1..((Len(c) - 1) \div 2) |-> c[2 * k].obj]

\* the works as fetched, with the topics entries of C5 selected
ExpectedWork(w) ==
  IF w.topics.kind = "list"
  THEN [w EXCEPT !.topics.items = SelectSeq(@, EntryIsAiTopic)]
  ELSE w

RECURSIVE Split(_, _)
Split(s, sep) ==
  IF ~Contains(s, sep) THEN <<s>>
  ELSE LET k == CHOOSE n \in DOMAIN s : s[n] = sep /\ \A h \in 1..(n - 1) : s[h] # sep
       IN <<SubSeq(s, 1, k - 1)>> \o Split(SubSeq(s, k + 1, Len(s)), sep)

\* C9: a run builds at most one works query and, once past line 81, exactly
\* one; every works request carries that query's filter; its primary-topic
\* clause lists all resolved ids joined by "|" in resolved order; it carries
\* both date bounds; it carries a type clause iff WORK_TYPE is set, and then
\* that type.
SingleWorksQuery ==
  /\ queriesBuilt <= 1
  /\ pc \in {"works_next", "trim", "mkdir", "timestamp", "open", "dump", "done"} => queriesBuilt = 1
  /\ \A f \in sentFilters : queriesBuilt = 1 /\ f = query
  /\ queriesBuilt = 1 =>
       /\ Split(query.primary_topic_id, "|") = topic_ids
       /\ query.to_publication_date = today /\ Len(today) = 3
       /\ query.from_publication_date = three_days_ago /\ Len(three_days_ago) = 3
       /\ (query.type.kind # "absent") <=> (WORK_TYPE.kind = "str")
       /\ (WORK_TYPE.kind = "str") => query.type = WORK_TYPE

SingleWorksQueryWitness ==
  /\ pc = "trim"
  /\ WORK_TYPE = Null
  /\ Len(topic_ids) = 2
  /\ sentFilters = {query}
  /\ worksRetrieved = 2

\* C10: every element of topic_ids is the short form of the identifier
\* string of some topic record the search returned.
EveryIdFromAnIdentifier ==
  pc \in ResolverPcs =>
    \A k \in DOMAIN topic_ids :
      \E j \in DOMAIN topicsYielded :
        /\ topicsYielded[j].id.kind = "str"
        /\ short_id(topicsYielded[j].id.val) = topic_ids[k]

====
